---- MODULE Spec2Model ----
(***************************************************************************)
(* UvWidgetPro: the UV estimation engine (uv_index_calculator.py), the     *)
(* forecast fetch (weather_service.py) and the page handler (app.py).      *)
(*                                                                         *)
(* Numbers.  The program computes in binary floating point.  The model     *)
(* computes in fixed point: factors and UV values in thousandths, the      *)
(* returned UV index in tenths (it is rounded to one decimal), angles in   *)
(* whole degrees, clock times in minutes, coordinates in 1/10000 degree,   *)
(* temperatures in thousandths of a degree Celsius.  math.cos and the two  *)
(* powers are tabulated at whole degrees / whole percents.                 *)
(***************************************************************************)
EXTENDS Integers, Sequences, FiniteSets, TLC

VARIABLES now, call, weather_data, page

vars == <<now, call, weather_data, page>>

(* Python's None and a present value. *)
None == << >>
Some(v) == <<v>>

Abs(x) == IF x < 0 THEN 0 - x ELSE x
Max(a, b) == IF a >= b THEN a ELSE b
Min(a, b) == IF a <= b THEN a ELSE b

(* Product of two fixed-point numbers in thousandths. *)
Mul(a, b) == (a * b) \div 1000

(* ---------------- math tables ---------------- *)

(* 1000 * cos(d degrees), d = 0..180, entry d+1. *)
CosTable ==
  <<1000, 1000, 999, 999, 998, 996, 995, 993, 990, 988, 985, 982,
    978, 974, 970, 966, 961, 956, 951, 946, 940, 934, 927, 921,
    914, 906, 899, 891, 883, 875, 866, 857, 848, 839, 829, 819,
    809, 799, 788, 777, 766, 755, 743, 731, 719, 707, 695, 682,
    669, 656, 643, 629, 616, 602, 588, 574, 559, 545, 530, 515,
    500, 485, 469, 454, 438, 423, 407, 391, 375, 358, 342, 326,
    309, 292, 276, 259, 242, 225, 208, 191, 174, 156, 139, 122,
    105, 87, 70, 52, 35, 17, 0, -17, -35, -52, -70, -87,
    -105, -122, -139, -156, -174, -191, -208, -225, -242, -259, -276, -292,
    -309, -326, -342, -358, -375, -391, -407, -423, -438, -454, -469, -485,
    -500, -515, -530, -545, -559, -574, -588, -602, -616, -629, -643, -656,
    -669, -682, -695, -707, -719, -731, -743, -755, -766, -777, -788, -799,
    -809, -819, -829, -839, -848, -857, -866, -875, -883, -891, -899, -906,
    -914, -921, -927, -934, -940, -946, -951, -956, -961, -966, -970, -974,
    -978, -982, -985, -988, -990, -993, -995, -996, -998, -999, -999, -1000,
    -1000>>

(* 1000 * cos(z degrees) ** 1.35, z = 0..74, entry z+1 (alpha = 1.35). *)
CosPowAlphaTable ==
  <<1000, 1000, 999, 998, 997, 995, 993, 990, 987, 983, 980, 975,
    971, 966, 960, 954, 948, 941, 934, 927, 919, 911, 903, 894,
    885, 876, 866, 856, 845, 835, 824, 812, 801, 789, 776, 764,
    751, 738, 725, 712, 698, 684, 670, 655, 641, 626, 611, 596,
    581, 566, 551, 535, 520, 504, 488, 472, 456, 440, 424, 408,
    392, 376, 360, 344, 328, 313, 297, 281, 266, 250, 235, 220,
    205, 190, 176>>

(* 1000 * (c / 100) ** 0.6, c = 0..100, entry c+1. *)
PowCloudTable ==
  <<0, 63, 96, 122, 145, 166, 185, 203, 220, 236, 251, 266,
    280, 294, 307, 320, 333, 345, 357, 369, 381, 392, 403, 414,
    425, 435, 446, 456, 466, 476, 486, 495, 505, 514, 523, 533,
    542, 551, 560, 568, 577, 586, 594, 603, 611, 619, 628, 636,
    644, 652, 660, 668, 675, 683, 691, 699, 706, 714, 721, 729,
    736, 743, 751, 758, 765, 772, 779, 786, 793, 800, 807, 814,
    821, 828, 835, 841, 848, 855, 862, 868, 875, 881, 888, 894,
    901, 907, 913, 920, 926, 932, 939, 945, 951, 957, 964, 970,
    976, 982, 988, 994, 1000>>

(* math.cos of an angle in whole degrees, 0..360. *)
Cos(d) == IF d <= 180 THEN CosTable[d + 1] ELSE CosTable[(360 - d) + 1]

(* ---------------- str.lower and the `in` operator on str ---------------- *)

UpperCase == "ABCDEFGHIJKLMNOPQRSTUVWXYZ"
LowerCase == "abcdefghijklmnopqrstuvwxyz"

(* Upper-case letter |-> lower-case letter. *)
LowerMap ==
  [c \in {SubSeq(UpperCase, i, i) : i \in 1..Len(UpperCase)} |->
     LET i == CHOOSE j \in 1..Len(UpperCase) : SubSeq(UpperCase, j, j) = c
     IN SubSeq(LowerCase, i, i)]

LowerChar(c) == IF c \in DOMAIN LowerMap THEN LowerMap[c] ELSE c

RECURSIVE lower(_)
lower(s) ==
  IF Len(s) = 0 THEN ""
  ELSE LowerChar(SubSeq(s, 1, 1)) \o lower(SubSeq(s, 2, Len(s)))

(* term in text *)
Contains(text, term) ==
  \E i \in 0..(Len(text) - Len(term)) : SubSeq(text, i + 1, i + Len(term)) = term

(* any(term in text for term in terms) *)
AnyTermIn(terms, text) == \E term \in terms : Contains(text, term)

(* ---------------- the environment: clock and sun ---------------- *)

(* What datetime.datetime.now() returns and the sun's altitude (degrees)   *)
(* ephem computes for Livonia at that moment.                             *)
Instants ==
  { [year |-> 2025, month |-> 7, day_of_year |-> 182, hour |-> 12, minute |-> 30, sun_altitude |-> 70],
    [year |-> 2025, month |-> 7, day_of_year |-> 182, hour |-> 9,  minute |-> 30, sun_altitude |-> 45],
    [year |-> 2025, month |-> 7, day_of_year |-> 182, hour |-> 18, minute |-> 30, sun_altitude |-> 15],
    [year |-> 2025, month |-> 7, day_of_year |-> 182, hour |-> 19, minute |-> 0,  sun_altitude |-> 10],
    [year |-> 2025, month |-> 7, day_of_year |-> 182, hour |-> 23, minute |-> 0,  sun_altitude |-> 0 - 30],
    [year |-> 2025, month |-> 1, day_of_year |-> 15,  hour |-> 12, minute |-> 0,  sun_altitude |-> 26],
    [year |-> 2025, month |-> 1, day_of_year |-> 15,  hour |-> 16, minute |-> 30, sun_altitude |-> 1],
    [year |-> 2025, month |-> 1, day_of_year |-> 15,  hour |-> 18, minute |-> 0,  sun_altitude |-> 0 - 10],
    [year |-> 2024, month |-> 3, day_of_year |-> 80,  hour |-> 6,  minute |-> 30, sun_altitude |-> 0] }

LIVONIA_LAT == 423834
LIVONIA_LONG == 0 - 833527

(* A latitude outside [-90, 90]: 999 degrees. *)
BadLatitude == 999 * 10000

ValidLatitude(latitude) == latitude >= 0 - 900000 /\ latitude <= 900000

(* Lines 50-61: what ephem does.  For the valid point it yields the sun's   *)
(* altitude at the instant.  For a latitude out of range the library's      *)
(* behaviour is not specified: the computation may raise or yield some      *)
(* altitude.                                                                *)
SunOutcomes(latitude, current_time) ==
  IF ValidLatitude(latitude)
  THEN { [raised |-> FALSE, sun_altitude |-> current_time.sun_altitude] }
  ELSE { [raised |-> TRUE, sun_altitude |-> 0] }
       \cup { [raised |-> FALSE, sun_altitude |-> a] : a \in {60, 0 - 10} }

(* ---------------- calculate_base_uv_index ---------------- *)

uv_max == 11000

year_length(current_time) == IF current_time.year % 4 = 0 THEN 366 ELSE 365

(* 0.8 + 0.5 * sin(day/len * 2 pi - pi/2); sin(x - pi/2) = -cos(x), x to the *)
(* nearest degree.                                                          *)
seasonal_adjustment(current_time) ==
  LET len == year_length(current_time)
      x == (current_time.day_of_year * 360 + len \div 2) \div len
  IN 800 + (500 * (0 - Cos(x))) \div 1000

(* In minutes. *)
hours_since_midnight(current_time) == current_time.hour * 60 + current_time.minute

solar_noon_offset(current_time) == Abs(hours_since_midnight(current_time) - 750)

(* cos(offset * pi / 6) ** 2 with offset in hours: offset minutes / 2 degrees. *)
time_adjustment(zenith, current_time) ==
  IF zenith >= 90 THEN 0
  ELSE IF solar_noon_offset(current_time) > 360 THEN 0
  ELSE LET c == Cos(solar_noon_offset(current_time) \div 2) IN (c * c) \div 1000

altitude_adjustment == 1000 + (200 * 100) \div 1000

(* The zenith angle with the altitude's sign wrong. *)
solar_zenith_angle_sign(sun_altitude) == 90 + sun_altitude

(* Line 64. *)
solar_zenith_angle(sun_altitude) == 90 - sun_altitude

calculate_base_uv_index(sun_altitude, current_time) ==
  LET zenith == solar_zenith_angle(sun_altitude)
  IN IF zenith >= 90 THEN 0
     ELSE
       LET s == seasonal_adjustment(current_time)
           t == time_adjustment(zenith, current_time)
           uv_index ==
             IF zenith < 75
             THEN Mul(Mul(Mul(uv_max, CosPowAlphaTable[zenith + 1]), s), t)
             ELSE Mul(Mul(Mul(Mul(uv_max, 150), ((90 - zenith) * 1000) \div 15), s), t)
       IN Mul(uv_index, altitude_adjustment)

(* ---------------- calculate_cloud_adjustment ---------------- *)

(* The cover damping without its "1 -". *)
base_adjustment_inverted(cloud_cover_percent) == PowCloudTable[cloud_cover_percent + 1]

base_adjustment(cloud_cover_percent) == 1000 - PowCloudTable[cloud_cover_percent + 1]

StormTerms == {"rain", "shower", "thunderstorm", "storm"}
OvercastTerms == {"overcast", "fog", "mist"}
PartialTerms == {"partly cloudy", "scattered clouds"}

(* The description buckets tested in the reverse order. *)
type_multiplier_reversed(weather_description) ==
  LET d == lower(weather_description)
  IN IF AnyTermIn(PartialTerms, d) THEN 900
     ELSE IF AnyTermIn(OvercastTerms, d) THEN 700
     ELSE IF AnyTermIn(StormTerms, d) THEN 500
     ELSE 1000

type_multiplier(weather_description) ==
  LET d == lower(weather_description)
  IN IF AnyTermIn(StormTerms, d) THEN 500
     ELSE IF AnyTermIn(OvercastTerms, d) THEN 700
     ELSE IF AnyTermIn(PartialTerms, d) THEN 900
     ELSE 1000

(* The clamp with a floor of 0 in place of 0.1. *)
cloud_adjustment_of_unfloored(base, multiplier) == Max(0, Min(1000, Mul(base, multiplier)))

(* Lines 143-147: max(0.1, min(1.0, base_adjustment * type_multiplier)). *)
cloud_adjustment_of(base, multiplier) == Max(100, Min(1000, Mul(base, multiplier)))

(* The function's type_multiplier (lines 134-141) and its return value. *)
calculate_cloud_adjustment(cloud_cover_percent, weather_description) ==
  LET multiplier == type_multiplier(weather_description)
  IN [type_multiplier |-> multiplier,
      cloud_adjustment |-> cloud_adjustment_of(base_adjustment(cloud_cover_percent),
                                               multiplier)]

(* ---------------- calculate_regional_adjustment ---------------- *)

winter_factor(current_time) ==
  IF current_time.month \in {12, 1, 2} THEN 700
  ELSE IF current_time.month \in {3, 11} THEN 850
  ELSE 1000

great_lakes_factor == 950

(* sqrt(dlat^2 + dlon^2) < 0.5, < 1.0, compared as squares, in 1/10000 degree. *)
(* A point more than a degree away on either axis is at distance >= 1.0.      *)
urban_factor(latitude, longitude) ==
  LET dlat == Abs(latitude - 423314)
      dlon == Abs(longitude - (0 - 830458))
  IN IF dlat >= 10000 \/ dlon >= 10000 THEN 1000
     ELSE IF dlat * dlat + dlon * dlon < 5000 * 5000 THEN 850
     ELSE IF dlat * dlat + dlon * dlon < 10000 * 10000 THEN 900
     ELSE 1000

temp_factor(temperature) ==
  IF temperature # None
  THEN IF temperature[1] < 5000 THEN 850
       ELSE IF temperature[1] < 15000 THEN 900
       ELSE 1000
  ELSE 1000

calculate_regional_adjustment(latitude, longitude, current_time, temperature) ==
  Mul(Mul(Mul(winter_factor(current_time), great_lakes_factor),
          urban_factor(latitude, longitude)),
      temp_factor(temperature))

(* ---------------- calculate_uv_index_with_clouds ---------------- *)

(* round(x, 1): thousandths to the nearest tenth. *)
RoundTenths(x) == (x + 50) \div 100

(* max(0, round(base * cloud * regional, 1)), in tenths. *)
adjusted_uv(base_uv, cloud_adjustment, regional_adjustment) ==
  Max(0, RoundTenths(Mul(Mul(base_uv, cloud_adjustment), regional_adjustment)))

NoCall ==
  [status |-> "none", latitude |-> 0, cloud_cover_percent |-> 0, temperature |-> None,
   weather_description |-> "", current_time |-> CHOOSE i \in Instants : TRUE,
   sun_altitude |-> 0, base_uv |-> 0, type_multiplier |-> 0, cloud_adjustment |-> 0,
   regional_adjustment |-> 0, uv_index |-> 0]

(* One call: the clock is read at line 22; sun is what ephem did at line 58. *)
(* An exception of ephem is not caught anywhere in the function.             *)
calculate_uv_index_with_clouds(current_time, sun, latitude, longitude, cloud_cover_percent, temperature, weather_description) ==
  LET args == [NoCall EXCEPT !.latitude = latitude,
                             !.cloud_cover_percent = cloud_cover_percent,
                             !.temperature = temperature,
                             !.weather_description = weather_description,
                             !.current_time = current_time]
  IN IF sun.raised THEN [args EXCEPT !.status = "raised"]
     ELSE
       LET base_uv == calculate_base_uv_index(sun.sun_altitude, current_time)
           cloud == calculate_cloud_adjustment(cloud_cover_percent, weather_description)
           regional == calculate_regional_adjustment(latitude, longitude,
                                                     current_time, temperature)
       IN [args EXCEPT !.status = "returned",
                       !.sun_altitude = sun.sun_altitude,
                       !.base_uv = base_uv,
                       !.type_multiplier = cloud.type_multiplier,
                       !.cloud_adjustment = cloud.cloud_adjustment,
                       !.regional_adjustment = regional,
                       !.uv_index = adjusted_uv(base_uv, cloud.cloud_adjustment, regional)]

(* ---------------- weather_service.get_weather_data ---------------- *)

(* dict.get(key, default) on a record. *)
DictGet(d, key, default) == IF key \in DOMAIN d THEN d[key] ELSE default

(* Lines 32-44: the cloud cover estimated from the lower-cased shortForecast. *)
estimate_cloud_cover(short_forecast) ==
  IF Contains(short_forecast, "clear") THEN 0
  ELSE IF Contains(short_forecast, "partly cloudy") \/ Contains(short_forecast, "partly sunny")
       THEN 50
  ELSE IF Contains(short_forecast, "cloudy") \/ Contains(short_forecast, "overcast")
       THEN 100
  ELSE IF Contains(short_forecast, "mostly cloudy") THEN 75
  ELSE IF Contains(short_forecast, "mostly clear") THEN 25
  ELSE 0

(* response: None when a request fails (the except branch, lines 54-56),    *)
(* else Some(current_period), the first forecast period of the service.     *)
get_weather_data(response) ==
  IF response = None THEN None
  ELSE
    LET current_period == response[1]
        short_forecast == lower(DictGet(current_period, "shortForecast", ""))
    IN Some([temperature |-> DictGet(current_period, "temperature", None),
             shortForecast |-> IF "shortForecast" \in DOMAIN current_period
                               THEN Some(current_period.shortForecast) ELSE None,
             relativeHumidity |-> None,
             windSpeed |-> None,
             windDirection |-> None,
             cloud_cover |-> estimate_cloud_cover(short_forecast)])

(* ---------------- app: the risk classifier ---------------- *)

get_uv_color(uv_index) ==
  IF uv_index < 30 THEN "green"
  ELSE IF uv_index < 60 THEN "yellow"
  ELSE IF uv_index < 80 THEN "orange"
  ELSE IF uv_index < 110 THEN "red"
  ELSE "purple"

(* The category with the upper bounds inclusive. *)
get_uv_category_inclusive(uv_index) ==
  IF uv_index <= 30 THEN "Low"
  ELSE IF uv_index <= 60 THEN "Moderate"
  ELSE IF uv_index <= 80 THEN "High"
  ELSE IF uv_index <= 110 THEN "Very High"
  ELSE "Extreme"

get_uv_category(uv_index) ==
  IF uv_index < 30 THEN "Low"
  ELSE IF uv_index < 60 THEN "Moderate"
  ELSE IF uv_index < 80 THEN "High"
  ELSE IF uv_index < 110 THEN "Very High"
  ELSE "Extreme"

get_uv_recommendations(uv_index) ==
  IF uv_index < 30
  THEN "Wear sunglasses on bright days. If you burn easily, cover up and use sunscreen."
  ELSE IF uv_index < 60
  THEN "Take precautions - cover up, wear a hat, sunglasses, and sunscreen. Seek shade during midday hours."
  ELSE IF uv_index < 80
  THEN "Protection required - UV damages skin and can cause sunburn. Reduce time in the sun between 11am-4pm."
  ELSE IF uv_index < 110
  THEN "Extra protection needed - unprotected skin will be damaged and can burn quickly. Avoid the sun between 11am-4pm."
  ELSE "Take all precautions - unprotected skin can burn in minutes. Avoid the sun between 11am-4pm, wear a hat, sunglasses and sunscreen."

(* What the UV column shows for a value (lines 104-118). *)
uv_column(uv_index, status) ==
  [status |-> status, uv_index |-> uv_index,
   uv_color |-> get_uv_color(uv_index),
   uv_category |-> get_uv_category(uv_index),
   recommendation |-> get_uv_recommendations(uv_index)]

NoPage ==
  [status |-> "none", uv_index |-> 0, uv_color |-> "", uv_category |-> "",
   recommendation |-> ""]

(* ---------------- app.update_and_display ---------------- *)

(* Line 78: Fahrenheit to Celsius, in thousandths of a degree. *)
to_celsius(temperature_f) ==
  IF temperature_f # None THEN Some(((temperature_f[1] - 32) * 5000) \div 9) ELSE None

(* Lines 74-83: the conditions handed to the engine. *)
extract_conditions(data) ==
  IF data # None
  THEN [cloud_cover_percent |-> DictGet(data[1], "cloud_cover", 0),
        temperature |-> to_celsius(DictGet(data[1], "temperature", None)),
        weather_description |-> DictGet(data[1], "description", "")]
  ELSE [cloud_cover_percent |-> 0, temperature |-> None, weather_description |-> ""]

(* Lines 120-129: the weather column reads weather_data['description'],     *)
(* a key get_weather_data never sets: the subscript raises KeyError.        *)
weather_column_status(data) ==
  IF data # None
  THEN IF {"temperature", "description", "humidity", "wind_speed"} \subseteq DOMAIN data[1]
       THEN "rendered" ELSE "KeyError"
  ELSE "rendered"

(* ---------------- inputs ---------------- *)

CloudCovers == {0, 50, 100}

(* Celsius, thousandths. *)
Temperatures == {None, Some(0)}

Descriptions ==
  { "", "Sunny", "Mostly Clear", "Partly Sunny", "Partly Cloudy", "Mostly Cloudy",
    "Overcast", "Light Rain", "Patchy Fog Then Partly Cloudy", "Partly Cloudy Then Showers" }

(* The arguments of a call of the engine: the Livonia point with every      *)
(* combination of conditions, and a point with an invalid latitude.         *)
EngineArguments ==
  { [latitude |-> LIVONIA_LAT, cloud_cover_percent |-> c, temperature |-> t,
     weather_description |-> d] :
      c \in CloudCovers, t \in Temperatures, d \in Descriptions }
  \cup { [latitude |-> BadLatitude, cloud_cover_percent |-> c, temperature |-> None,
          weather_description |-> "Light Rain"] : c \in CloudCovers }

(* Fahrenheit, as the service reports it. *)
FahrenheitTemperatures == {32, 77}

(* The first forecast period of a response, with or without its fields. *)
Periods ==
  { [shortForecast |-> d, temperature |-> Some(f)] :
      d \in Descriptions \ {""}, f \in FahrenheitTemperatures }
  \cup { [shortForecast |-> d] : d \in Descriptions \ {""} }
  \cup { [temperature |-> Some(f)] : f \in FahrenheitTemperatures }

Responses == {None} \cup { Some(p) : p \in Periods }

(* UV values handed to the classifier, in tenths: 0.0 .. MaxUV / 10. *)
MaxUV == 150

(* ---------------- the state machine ---------------- *)

Init ==
  /\ now \in Instants
  /\ call = NoCall
  /\ weather_data = None
  /\ page = NoPage

(* Time passes: the clock and the sun move. *)
Tick ==
  /\ \E i \in Instants \ {now} : now' = i
  /\ UNCHANGED <<call, weather_data, page>>

(* A caller invokes the engine. *)
CallEngine ==
  \E a \in EngineArguments :
    \E sun \in SunOutcomes(a.latitude, now) :
      /\ call' = calculate_uv_index_with_clouds(now, sun, a.latitude, LIVONIA_LONG,
                   a.cloud_cover_percent, a.temperature, a.weather_description)
      /\ UNCHANGED <<now, weather_data, page>>

(* The page handler: fetch, extract, estimate, render.  The engine it     *)
(* calls is calculate_uv_index_with_clouds, with these five arguments.     *)
update_and_display ==
  \E response \in Responses :
    LET data == get_weather_data(response)
        c == extract_conditions(data)
    IN \E sun \in SunOutcomes(LIVONIA_LAT, now) :
         LET r == calculate_uv_index_with_clouds(now, sun, LIVONIA_LAT, LIVONIA_LONG,
                    c.cloud_cover_percent, c.temperature, c.weather_description)
         IN /\ weather_data' = data
            /\ call' = r
            /\ page' = IF r.status = "raised" THEN [NoPage EXCEPT !.status = "raised"]
                       ELSE uv_column(r.uv_index, weather_column_status(data))
            /\ UNCHANGED now

(* The classifier applied to a UV value. *)
Classify ==
  /\ \E uv_index \in 0..MaxUV : page' = uv_column(uv_index, "classified")
  /\ UNCHANGED <<now, call, weather_data>>

Next == Tick \/ CallEngine

NextApp == Tick \/ update_and_display

NextClassify == Tick \/ Classify

Spec == Init /\ [][Next]_vars

SpecApp == Init /\ [][NextApp]_vars

SpecClassify == Init /\ [][NextClassify]_vars

(* ======================= claims ======================= *)

Returned == call.status = "returned"

(* The solar zenith angle of the recorded call: 90 degrees - altitude. *)
CallZenith == 90 - call.sun_altitude

(* The value the engine returns for cloud cover c, the other inputs of the *)
(* recorded call held fixed.                                                *)
UVAt(c) ==
  adjusted_uv(call.base_uv,
              cloud_adjustment_of(base_adjustment(c), call.type_multiplier),
              call.regional_adjustment)

(* C1: whenever the zenith angle is >= 90 degrees, calculate_base_uv_index *)
(* returns 0 and the engine returns exactly 0, whatever the conditions.     *)
C1_NightIsZero ==
  (Returned /\ CallZenith >= 90) => (call.base_uv = 0 /\ call.uv_index = 0)

(* A call under cloud and rain, the sun 10 degrees below the horizon at a   *)
(* clock time inside the day-part window.                                   *)
C1_Witness ==
  /\ Returned
  /\ CallZenith = 100
  /\ call.current_time.hour = 18
  /\ call.weather_description = "Light Rain"
  /\ call.uv_index = 0

NonIncreasing(uv) ==
  \A c1 \in DOMAIN uv : \A c2 \in DOMAIN uv : c1 <= c2 => uv[c2] <= uv[c1]

(* C2: the returned value does not increase with cloud cover: for all      *)
(* c1 <= c2 in 0..100 the value for c2 is <= the value for c1, the other    *)
(* inputs held fixed.                                                       *)
C2_MonotoneInCloudCover == Returned => NonIncreasing([c \in 0..100 |-> UVAt(c)])

(* A daytime call whose value strictly drops between 0% and 100% cover.     *)
C2_Witness ==
  /\ Returned
  /\ call.cloud_cover_percent = 50
  /\ UVAt(100) < call.uv_index
  /\ call.uv_index < UVAt(0)

(* ---- C3 ---- *)

(* The band of the claim's table that holds v (tenths): lower bound        *)
(* inclusive, upper bound exclusive.                                        *)
BandsHolding(v) ==
  { b \in 1..5 :
      /\ v >= <<0, 30, 60, 80, 110>>[b]
      /\ (b < 5 => v < <<30, 60, 80, 110>>[b]) }

ColorBand(color) ==
  CASE color = "green" -> 1 [] color = "yellow" -> 2 [] color = "orange" -> 3
    [] color = "red" -> 4 [] color = "purple" -> 5 [] OTHER -> 0

CategoryBand(category) ==
  CASE category = "Low" -> 1 [] category = "Moderate" -> 2 [] category = "High" -> 3
    [] category = "Very High" -> 4 [] category = "Extreme" -> 5 [] OTHER -> 0

RecommendationBand(text) ==
  LET head == SubSeq(text, 1, 8)
  IN CASE head = "Wear sun" -> 1 [] head = "Take pre" -> 2 [] head = "Protecti" -> 3
       [] head = "Extra pr" -> 4 [] head = "Take all" -> 5 [] OTHER -> 0

(* C3: every value falls in exactly one band (<3 Low/green, <6             *)
(* Moderate/yellow, <8 High/orange, <11 Very High/red, else                 *)
(* Extreme/purple), a boundary value in the higher one, and the colour, the *)
(* category and the recommendation are those of that one band.              *)
C3_ClassifierPartition ==
  page.status = "classified" =>
    /\ Cardinality(BandsHolding(page.uv_index)) = 1
    /\ BandsHolding(page.uv_index) = {CategoryBand(page.uv_category)}
    /\ ColorBand(page.uv_color) = CategoryBand(page.uv_category)
    /\ RecommendationBand(page.recommendation) = CategoryBand(page.uv_category)

(* The boundary value 8.0 classified as Very High / red. *)
C3_Witness ==
  /\ page.status = "classified"
  /\ page.uv_index = 80
  /\ page.uv_category = "Very High"
  /\ page.uv_color = "red"

(* ---- C4 ---- *)

(* C4: a failure of the solar geometry never leaves the engine as an       *)
(* exception: the call returns, and for an invalid latitude the value lies  *)
(* in [0, 12].                                                              *)
C4_FallbackOnGeometryFailure ==
  /\ call.status # "raised"
  /\ (Returned /\ ~ValidLatitude(call.latitude)) => call.uv_index \in 0..120

(* ---- C5 ---- *)

SameArguments(a, b) ==
  /\ a.latitude = b.latitude
  /\ a.cloud_cover_percent = b.cloud_cover_percent
  /\ a.temperature = b.temperature
  /\ a.weather_description = b.weather_description

(* C5: a call with the arguments of the call before it returns the value   *)
(* that call returned, whatever happened in between.                        *)
C5_SameArgumentsSameValue ==
  [][(Returned /\ call'.status = "returned" /\ ValidLatitude(call.latitude)
        /\ SameArguments(call, call'))
       => call'.uv_index = call.uv_index]_vars

(* ---- C6 ---- *)

CloudFactorInRange ==
  \A c \in 0..100 :
    /\ cloud_adjustment_of(base_adjustment(c), call.type_multiplier) >= 100
    /\ cloud_adjustment_of(base_adjustment(c), call.type_multiplier) <= 1000

(* C6 as stated: the cloud factor is in [0.1, 1.0] and the engine returns  *)
(* 0 only at night: zenith < 90 implies a value > 0.                        *)
C6_ZeroOnlyAtNight ==
  Returned =>
    /\ CloudFactorInRange
    /\ call.cloud_adjustment >= 100 /\ call.cloud_adjustment <= 1000
    /\ CallZenith < 90 => call.uv_index > 0

(* C6 amended: the cloud factor is in [0.1, 1.0] for every cloud cover and *)
(* description, and cloud cover cannot zero a clear-sky value of 1.0 or     *)
(* more: if base_uv * regional_adjustment >= 1.0 the returned value is > 0  *)
(* for every cloud cover.                                                   *)
C6_CloudNeverZeroes ==
  Returned =>
    /\ CloudFactorInRange
    /\ call.cloud_adjustment >= 100 /\ call.cloud_adjustment <= 1000
    /\ Mul(call.base_uv, call.regional_adjustment) >= 1000 =>
         (call.uv_index > 0 /\ \A c \in 0..100 : UVAt(c) > 0)

(* Full cover under rain at midday: the factor sits on its floor and the   *)
(* value is still positive.                                                 *)
C6_Witness ==
  /\ Returned
  /\ call.cloud_cover_percent = 100
  /\ call.weather_description = "Light Rain"
  /\ call.cloud_adjustment = 100
  /\ Mul(call.base_uv, call.regional_adjustment) >= 1000
  /\ call.uv_index > 0

(* ---- C7 ---- *)

HasStormTerm(d) ==
  \/ Contains(d, "rain") \/ Contains(d, "shower")
  \/ Contains(d, "thunderstorm") \/ Contains(d, "storm")

HasOvercastTerm(d) == Contains(d, "overcast") \/ Contains(d, "fog") \/ Contains(d, "mist")

HasPartialTerm(d) == Contains(d, "partly cloudy") \/ Contains(d, "scattered clouds")

(* C7: the description multiplier is 0.5 for a storm-class term, else 0.7  *)
(* for an overcast-class term, else 0.9 for a partial-cloud term, else 1.0, *)
(* matched without regard to case; the cloud factor is the clamped product  *)
(* of that one multiplier and the cover damping.                            *)
C7_OneMultiplierByPriority ==
  Returned =>
    LET d == lower(call.weather_description)
        m == call.type_multiplier
    IN /\ HasStormTerm(d) => m = 500
       /\ (~HasStormTerm(d) /\ HasOvercastTerm(d)) => m = 700
       /\ (~HasStormTerm(d) /\ ~HasOvercastTerm(d) /\ HasPartialTerm(d)) => m = 900
       /\ (~HasStormTerm(d) /\ ~HasOvercastTerm(d) /\ ~HasPartialTerm(d)) => m = 1000
       /\ call.cloud_adjustment =
            Max(100, Min(1000, Mul(1000 - PowCloudTable[call.cloud_cover_percent + 1], m)))

(* A capitalised description of two classes, storm and partial cloud. *)
C7_Witness ==
  /\ Returned
  /\ call.weather_description = "Partly Cloudy Then Showers"
  /\ call.type_multiplier = 500

(* ---- C8 ---- *)

(* The time-of-day factor the base model uses at an instant, sun up. *)
TimeFactor(i) == time_adjustment(90 - i.sun_altitude, i)

Daylight == { i \in Instants : i.sun_altitude > 0 }

(* C8: for a call with the sun up, the time-of-day factor is 1 at 12:30,   *)
(* 0 at a distance of 6 hours or more, and no larger than the factor of any *)
(* instant nearer to 12:30.                                                 *)
C8_BellCurve ==
  (Returned /\ CallZenith < 90 /\ call.current_time \in Daylight) =>
    LET off == solar_noon_offset(call.current_time)
        t == TimeFactor(call.current_time)
    IN /\ off = 0 => t = 1000
       /\ off >= 360 => t = 0
       /\ \A i \in Daylight : solar_noon_offset(i) <= off => TimeFactor(i) >= t

(* ---- C9 ---- *)

(* C9: when weather data was returned, the engine is called with the       *)
(* fetched cloud cover, the fetched temperature in Celsius and the fetched  *)
(* forecast text; with no weather data, with the neutral defaults.          *)
C9_FetchedConditionsReachEngine ==
  page.status # "none" =>
    IF weather_data # None
    THEN LET w == weather_data[1]
         IN /\ call.cloud_cover_percent = w.cloud_cover
            /\ call.temperature =
                 (IF w.temperature = None THEN None
                  ELSE Some(((w.temperature[1] - 32) * 5000) \div 9))
            /\ w.shortForecast # None => call.weather_description = w.shortForecast[1]
    ELSE /\ call.cloud_cover_percent = 0
         /\ call.temperature = None
         /\ call.weather_description = ""

(* ---- C10 ---- *)

(* C10: the cloud cover estimated from the forecast text is 75 for "mostly *)
(* cloudy", 25 for "mostly clear", 50 for "partly cloudy" or "partly        *)
(* sunny", 100 for "cloudy" or "overcast" without a more specific phrase,   *)
(* 0 for "clear" without "mostly clear", 0 otherwise.                       *)
C10_CloudCoverPerPhrase ==
  (weather_data # None /\ weather_data[1].shortForecast # None) =>
    LET d == lower(weather_data[1].shortForecast[1])
        cover == weather_data[1].cloud_cover
        mostly_cloudy == Contains(d, "mostly cloudy")
        mostly_clear == Contains(d, "mostly clear")
        partly == Contains(d, "partly cloudy") \/ Contains(d, "partly sunny")
        cloudy == Contains(d, "cloudy") \/ Contains(d, "overcast")
        clear == Contains(d, "clear")
    IN /\ mostly_cloudy => cover = 75
       /\ mostly_clear => cover = 25
       /\ (partly /\ ~mostly_cloudy /\ ~mostly_clear) => cover = 50
       /\ (cloudy /\ ~mostly_cloudy /\ ~partly /\ ~mostly_clear) => cover = 100
       /\ (clear /\ ~mostly_clear /\ ~mostly_cloudy /\ ~partly) => cover = 0
       /\ (~cloudy /\ ~clear /\ ~partly) => cover = 0
====
